---- MODULE Spec2Model ----
(***************************************************************************)
(* rsbuild-plugin-vfd: the preflight filter, the confidence classifier and *)
(* the export rewriter of src/ts/plugin.ts, over texts kept as strings.    *)
(* Regular expressions are modelled by what they match, character by       *)
(* character.                                                              *)
(***************************************************************************)
EXTENDS Integers, Sequences, FiniteSets, TLC

VARIABLES
    options,     \* the configured isClassComponent predicate
    code,        \* the text of the file unit as it stands
    source,      \* the text the last call received
    op,          \* the last function called
    verdict,     \* the boolean the last call's predicate returned
    calls,       \* the functions the last call consulted, in order
    confidence,  \* the confidence accumulator of the last classifier run
    runs         \* how many times the handler has run on this file

vars == <<options, code, source, op, verdict, calls, confidence, runs>>

----------------------------------------------------------------------------
(* Bounds of the model. *)

MaxFrags == 3
MaxRuns == 2

----------------------------------------------------------------------------
(* Strings. *)

Char(s, i) == IF 1 <= i /\ i <= Len(s) THEN SubSeq(s, i, i) ELSE ""

\* s has lit at position i (1-based)
StartsWithAt(s, i, lit) ==
    /\ 1 <= i
    /\ i + Len(lit) - 1 <= Len(s)
    /\ SubSeq(s, i, i + Len(lit) - 1) = lit

\* String.prototype.includes
Includes(s, lit) ==
    \E i \in 1..(Len(s) - Len(lit) + 1) : SubSeq(s, i, i + Len(lit) - 1) = lit

UpperCase == "ABCDEFGHIJKLMNOPQRSTUVWXYZ"
LowerCase == "abcdefghijklmnopqrstuvwxyz"

UpperSet == { Char(UpperCase, k) : k \in 1..Len(UpperCase) }
LowerSet == { Char(LowerCase, k) : k \in 1..Len(LowerCase) }

\* [A-Z]
IsUpper(c) == c \in UpperSet
IsLower(c) == c \in LowerSet
\* [A-Za-z]
IsLetter(c) == IsUpper(c) \/ IsLower(c)

\* \s (the white space and line terminators a TLA+ string can hold)
IsSpace(c) == c \in {" ", "\t", "\n", "\r", "\f"}

\* what . does not match
IsLineTerminator(c) == c \in {"\n", "\r"}

\* the upper case of each lower-case letter
ToUpperCase ==
    [ c \in LowerSet |->
        Char(UpperCase, CHOOSE k \in 1..Len(LowerCase) : Char(LowerCase, k) = c) ]

\* Canonicalize of a character under the i flag: its upper case
Canonicalize(c) == IF IsLower(c) THEN ToUpperCase[c] ELSE c

\* lit at position i of s, compared under the i flag
StartsWithAtIgnoreCase(s, i, lit) ==
    /\ 1 <= i
    /\ i + Len(lit) - 1 <= Len(s)
    /\ \A k \in 1..Len(lit) :
          Canonicalize(Char(s, i + k - 1)) = Canonicalize(Char(lit, k))

----------------------------------------------------------------------------
(* passesPreflight *)

\* faulty variant: the check for an earlier wrap is left out
PassesPreflightNoWrapCheck(text) ==
    /\ ~Includes(text, "type=style")
    /\ ~Includes(text, "type=template")

\* faulty variant: one absent marker is taken to be enough
PassesPreflightAnyAbsent(text) ==
    \/ ~Includes(text, "type=style")
    \/ ~Includes(text, "type=template")
    \/ ~Includes(text, "toNative")

PassesPreflight(text) ==
    /\ ~Includes(text, "type=style")
    /\ ~Includes(text, "type=template")
    /\ ~Includes(text, "toNative")

----------------------------------------------------------------------------
(* exportsClassComponent: the patterns *)

\* /from\s+['"]vue-facing-decorator['"]/
MatchesDecoratorImport(text) ==
    \E i \in 1..Len(text) :
      /\ StartsWithAt(text, i, "from")
      /\ \E n \in 1..Len(text) :
        /\ \A k \in (i + 4)..(i + 3 + n) : IsSpace(Char(text, k))
        /\ Char(text, i + 4 + n) \in {"'", "\""}
        /\ StartsWithAt(text, i + 5 + n, "vue-facing-decorator")
        /\ Char(text, i + 25 + n) \in {"'", "\""}

\* the first position from k on that . does not match: a line terminator or
\* the end of the text
RECURSIVE LineEnd(_, _)
LineEnd(text, k) ==
    IF k > Len(text) \/ IsLineTerminator(Char(text, k))
    THEN k
    ELSE LineEnd(text, k + 1)

\* the positions j at which "extends" follows a "class" at i after .*
ExtendsAfterClassAt(text, i) ==
    IF StartsWithAt(text, i, "class")
    THEN { j \in (i + 5)..LineEnd(text, i + 5) : StartsWithAt(text, j, "extends") }
    ELSE {}

\* /class.*extends\sVue/
MatchesExtendsVue(text) ==
    \E i \in 1..Len(text) : \E j \in ExtendsAfterClassAt(text, i) :
        /\ IsSpace(Char(text, j + 7))
        /\ StartsWithAt(text, j + 8, "Vue")

\* /class.*extends/
MatchesExtends(text) ==
    \E i \in 1..Len(text) : ExtendsAfterClassAt(text, i) # {}

\* export\sdefault\s at position i
DefaultExportAt(text, i) ==
    /\ StartsWithAt(text, i, "export")
    /\ IsSpace(Char(text, i + 6))
    /\ StartsWithAt(text, i + 7, "default")
    /\ IsSpace(Char(text, i + 14))

\* /export\sdefault\s(?!\{)/ matches at i
NotObjectExportAt(text, i) ==
    /\ DefaultExportAt(text, i)
    /\ ~StartsWithAt(text, i + 15, "{")

\* /export\sdefault\s(?!class)(?![A-Z])/ matches at i
NotClassNotCapitalExportAt(text, i) ==
    /\ DefaultExportAt(text, i)
    /\ ~StartsWithAt(text, i + 15, "class")
    /\ ~IsUpper(Char(text, i + 15))

\* faulty variant: the lookahead of rule 5a also excludes class
MatchesNotObjectNotClassExport(text) ==
    \E i \in 1..Len(text) :
        NotObjectExportAt(text, i) /\ ~StartsWithAt(text, i + 15, "class")

MatchesNotObjectExport(text) ==
    \E i \in 1..Len(text) : NotObjectExportAt(text, i)

\* faulty variant: the lookahead of rule 5b also excludes an object literal
MatchesNotClassNotCapitalNotObjectExport(text) ==
    \E i \in 1..Len(text) :
        NotClassNotCapitalExportAt(text, i) /\ NotObjectExportAt(text, i)

MatchesNotClassNotCapitalExport(text) ==
    \E i \in 1..Len(text) : NotClassNotCapitalExportAt(text, i)

----------------------------------------------------------------------------
(* exportsClassComponent: the confidence score *)

ImportWeight == 40
ExtendsVueWeight == 40
ExtendsWeight == 10
GateThreshold == 50
NotObjectWeight == 1
NotClassNotCapitalWeight == 1
VerdictThreshold == 50

\* rule 2: the import of vue-facing-decorator
AfterImport(text, c) ==
    IF MatchesDecoratorImport(text) THEN c + ImportWeight ELSE c

\* faulty variant: the second check of rule 3 is an if of its own
AfterExtendsBoth(text, c) ==
    LET vue == IF MatchesExtendsVue(text) THEN c + ExtendsVueWeight ELSE c
    IN  IF MatchesExtends(text) THEN vue + ExtendsWeight ELSE vue

\* rule 3: extends Vue, else extends anything
AfterExtends(text, c) ==
    IF MatchesExtendsVue(text) THEN c + ExtendsVueWeight
    ELSE IF MatchesExtends(text) THEN c + ExtendsWeight
    ELSE c

\* rule 4: the early-return gate
PastGate(c) == c > GateThreshold

\* faulty variant: rule 5a adds the weight of the import
AfterNotObjectExportHeavy(text, c) ==
    IF MatchesNotObjectExport(text) THEN c + ImportWeight ELSE c

\* rule 5a: a default export of something other than an object literal
AfterNotObjectExport(text, c) ==
    IF MatchesNotObjectExport(text) THEN c + NotObjectWeight ELSE c

\* rule 5b: a default export that is no class and not capitalised
AfterNotClassNotCapitalExport(text, c) ==
    IF MatchesNotClassNotCapitalExport(text)
    THEN c - NotClassNotCapitalWeight
    ELSE c

\* faulty variant: the boundary is included
FinalVerdictInclusive(c) == c >= VerdictThreshold

\* rule 6: the final verdict
FinalVerdict(c) == c > VerdictThreshold

\* the values confidence takes in one run, and what the run returns
Confidence(text) ==
    LET start  == 0
        import == AfterImport(text, start)
        gate   == AfterExtends(text, import)
        early  == PastGate(gate)
        tieA   == IF early THEN gate ELSE AfterNotObjectExport(text, gate)
        final  == IF early THEN gate ELSE AfterNotClassNotCapitalExport(text, tieA)
    IN  [start |-> start, import |-> import, gate |-> gate, early |-> early,
         tieA |-> tieA, final |-> final,
         result |-> IF early THEN TRUE ELSE FinalVerdict(final)]

ExportsClassComponent(text) == Confidence(text).result

\* no classifier run
NotRun == [start |-> 0, import |-> 0, gate |-> 0, early |-> FALSE,
           tieA |-> 0, final |-> 0, result |-> FALSE]

----------------------------------------------------------------------------
(* The handler: the predicate and the rewrite *)

\* the default predicate, or one the caller supplies
Options == {"default", "supplied"}

\* a predicate a caller supplies: the text holds the binding of the Vue loader
SuppliedPredicate(text) == Includes(text, "_sfc_main")

\* options.isClassComponent(text), the default or what the caller supplied:
\* what it returns, the functions of the plugin it calls (the && of the default
\* calls exportsClassComponent only after passesPreflight has returned true),
\* and the confidence of the classifier run, if there was one
Evaluation(opts, text) ==
    IF opts = "default"
    THEN LET passes == PassesPreflight(text)
             run    == Confidence(text)
         IN  IF passes
             THEN [verdict |-> run.result,
                   calls |-> <<"passesPreflight", "exportsClassComponent">>,
                   confidence |-> run]
             ELSE [verdict |-> FALSE,
                   calls |-> <<"passesPreflight">>,
                   confidence |-> NotRun]
    ELSE [verdict |-> SuppliedPredicate(text), calls |-> <<>>,
          confidence |-> NotRun]

VueFacingImport == "\nimport {toNative} from \"vue-facing-decorator\";\n"

SfcMainPrefix == "const _sfc_main = "

\* the length of the longest run of [A-Za-z] that starts at i
LettersFrom(text, i) ==
    CHOOSE r \in 0..Len(text) :
        /\ \A k \in i..(i + r - 1) : IsLetter(Char(text, k))
        /\ ~IsLetter(Char(text, i + r))

\* the length of the match of /const _sfc_main = ([A-Za-z]*);/i at i, 0 if none
AssignmentAt(text, i) ==
    IF StartsWithAtIgnoreCase(text, i, SfcMainPrefix)
    THEN LET r == LettersFrom(text, i + Len(SfcMainPrefix))
         IN  IF Char(text, i + Len(SfcMainPrefix) + r) = ";"
             THEN Len(SfcMainPrefix) + r + 1
             ELSE 0
    ELSE 0

\* "const _sfc_main = toNative($1);" for the match of length n at i
Wrapped(text, i, n) ==
    "const _sfc_main = toNative("
        \o SubSeq(text, i + Len(SfcMainPrefix), i + n - 2) \o ");"

\* code.replace(/.../ig, ...) from position i on: the text up to the leftmost
\* match is kept, the match is replaced, and the search goes on behind it
RECURSIVE ReplaceFrom(_, _)
ReplaceFrom(text, i) ==
    LET matches == { p \in i..Len(text) : AssignmentAt(text, p) > 0 }
    IN  IF matches = {}
        THEN SubSeq(text, i, Len(text))
        ELSE LET p == CHOOSE q \in matches : \A r \in matches : q <= r
                 n == AssignmentAt(text, p)
             IN  SubSeq(text, i, p - 1) \o Wrapped(text, p, n)
                     \o ReplaceFrom(text, p + n)

TransformedCode(text) == ReplaceFrom(text, 1)

\* faulty variant: the preflight is applied whatever the predicate is
HandlerPreflightFirst(isClass, text) ==
    IF ~(PassesPreflight(text) /\ isClass)
    THEN text
    ELSE VueFacingImport \o TransformedCode(text)

\* the handler, isClass being what options.isClassComponent(text) returned
Handler(isClass, text) ==
    IF ~isClass
    THEN text
    ELSE VueFacingImport \o TransformedCode(text)

----------------------------------------------------------------------------
(* The texts the bundler hands over: up to MaxFrags of these lines *)

Lines == <<
    "from \"vue-facing-decorator\";\n",
    "class Foo extends Vue {}\n",
    "class Foo extends Base {}\n",
    "class Foo\nextends Vue {}\n",
    "export default Foo;\n",
    "export default exampleComponent;\n",
    "export default {};\n",
    "export default class Foo extends Base {}\n",
    "const _sfc_main = Foo;\n",
    "const _SFC_MAIN = Foo;\n",
    "CONST _sfc_main = Foo;\n",
    "const _sfc_main = ;\n",
    "toNative",
    "type=style",
    "type=template" >>

\* the lines picked, in the order of Lines, from line k on
RECURSIVE Concat(_, _)
Concat(picked, k) ==
    IF k > Len(Lines) THEN ""
    ELSE (IF k \in picked THEN Lines[k] ELSE "") \o Concat(picked, k + 1)

Texts ==
    { Concat(picked, 1) :
        picked \in { S \in SUBSET (1..Len(Lines)) : Cardinality(S) <= MaxFrags } }

----------------------------------------------------------------------------
(* The state machine *)

Init ==
    /\ options \in Options
    /\ code \in Texts
    /\ source = ""
    /\ op = "none"
    /\ verdict = FALSE
    /\ calls = <<>>
    /\ confidence = NotRun
    /\ runs = 0

\* a direct call of the exported passesPreflight on the text
CallPassesPreflight ==
    /\ op' = "passesPreflight"
    /\ source' = code
    /\ verdict' = PassesPreflight(code)
    /\ calls' = <<"passesPreflight">>
    /\ confidence' = NotRun
    /\ UNCHANGED <<options, code, runs>>

\* a direct call of the exported exportsClassComponent on the text
CallExportsClassComponent ==
    LET run == Confidence(code)
    IN  /\ op' = "exportsClassComponent"
        /\ source' = code
        /\ verdict' = run.result
        /\ calls' = <<"exportsClassComponent">>
        /\ confidence' = run
        /\ UNCHANGED <<options, code, runs>>

\* the transform handler runs on the text and the bundler takes its result
Transform ==
    LET e == Evaluation(options, code)
    IN  /\ runs < MaxRuns
        /\ op' = "handler"
        /\ source' = code
        /\ verdict' = e.verdict
        /\ calls' = e.calls
        /\ confidence' = e.confidence
        /\ code' = Handler(e.verdict, code)
        /\ runs' = runs + 1
        /\ UNCHANGED options

Next ==
    \/ CallPassesPreflight
    \/ CallExportsClassComponent
    \/ Transform

Spec == Init /\ [][Next]_vars

----------------------------------------------------------------------------
(* Properties *)

TypeOK ==
    /\ options \in Options
    /\ op \in {"none", "passesPreflight", "exportsClassComponent", "handler"}
    /\ verdict \in BOOLEAN
    /\ runs \in 0..MaxRuns
    /\ confidence.result \in BOOLEAN

\* text holds the literal lit somewhere
Contains(text, lit) ==
    \E i \in 0..(Len(text) - Len(lit)) : SubSeq(text, i + 1, i + Len(lit)) = lit

\* text has a default export, and each one it has reads "export default " target
OnlyDefaultExport(text, target) ==
    /\ Contains(text, "export default")
    /\ \A i \in 1..Len(text) :
          StartsWithAt(text, i, "export default")
              => StartsWithAt(text, i, "export default " \o target)

\* the classifier ran on source, alone or inside the handler
Classified == op = "exportsClassComponent" \/ (op = "handler" /\ Len(calls) = 2)

\* C1: with the default predicate the handler is idempotent: a further run on
\* its own output returns that output unchanged, and every rewritten output
\* holds toNative.
C1_Idempotent ==
    (options = "default" /\ op = "handler") =>
        /\ runs >= 2 => code = source
        /\ verdict => Contains(code, "toNative")

C1_Witness ==
    /\ options = "default" /\ op = "handler" /\ runs = 2
    /\ Contains(code, "const _sfc_main = toNative(Foo);")
    /\ code = source

\* C2: passesPreflight returns false exactly for the texts that hold type=style,
\* type=template or toNative, whatever else they hold, and true for the others,
\* the empty text among them.
C2_Preflight ==
    op = "passesPreflight" =>
        /\ verdict = FALSE <=>
              \/ Contains(source, "type=style")
              \/ Contains(source, "type=template")
              \/ Contains(source, "toNative")
        /\ source = "" => verdict = TRUE

C2_Witness ==
    /\ op = "passesPreflight" /\ verdict = FALSE
    /\ Contains(source, "type=template")
    /\ ~Contains(source, "toNative") /\ ~Contains(source, "type=style")
    /\ Contains(source, "class Foo extends Vue")

\* C4: the handler returns its input unchanged when the predicate is false and
\* the import line followed by the rewritten input when it is true; a supplied
\* predicate alone decides, and passesPreflight and exportsClassComponent are
\* not called.
C4_PredicateDecides ==
    op = "handler" =>
        /\ verdict = FALSE => code = source
        /\ verdict = TRUE => code = VueFacingImport \o TransformedCode(source)
        /\ options = "supplied" =>
              (verdict = Contains(source, "_sfc_main") /\ calls = <<>>)
        /\ options = "default" =>
              verdict = (PassesPreflight(source) /\ ExportsClassComponent(source))

C4_Witness ==
    /\ op = "handler" /\ options = "supplied" /\ calls = <<>>
    /\ Contains(source, "toNative") /\ ~ExportsClassComponent(source)
    /\ verdict = TRUE
    /\ code = VueFacingImport \o TransformedCode(source)
    /\ code # VueFacingImport \o source

C9_ScoreRange ==
    Classified =>
        /\ confidence.gate - confidence.import \in {0, 10, 40}
        /\ confidence.gate \in {0, 10, 40, 50, 80}
        /\ confidence.early <=> confidence.gate = 80
        /\ \A c \in {confidence.start, confidence.import, confidence.gate,
                     confidence.tieA, confidence.final} : c \in -1..80

C9_Witness ==
    /\ op = "exportsClassComponent"
    /\ MatchesExtendsVue(source) /\ MatchesExtends(source)
    /\ confidence.gate = 80 /\ confidence.early /\ verdict = TRUE

\* C10: exportsClassComponent returns true only for a text with both a
\* vue-facing-decorator import and a class ... extends; a text without one of
\* them is at most at 40 at the gate and 41 at the end, and the default
\* predicate never has it rewritten.
C10_NeedsImportAndClass ==
    LET both == MatchesDecoratorImport(source) /\ MatchesExtends(source)
    IN  /\ (op = "exportsClassComponent" /\ verdict = TRUE) => both
        /\ (op = "exportsClassComponent" /\ ~both)
              => (confidence.gate <= 40 /\ confidence.final <= 41)
        /\ (op = "handler" /\ options = "default" /\ code # source) => both

C10_Witness ==
    /\ op = "handler" /\ options = "default" /\ code # source
    /\ confidence.gate = 50 /\ confidence.final = 51
    /\ MatchesDecoratorImport(source) /\ MatchesExtends(source)

----------------------------------------------------------------------------
(* The assignment rule as the specification words it: the keyword const in  *)
(* either case, the binding _sfc_main as written, an identifier of at least *)
(* `least` letters, and a semicolon.                                        *)

WordedAssignmentAt(text, i, least) ==
    IF /\ StartsWithAtIgnoreCase(text, i, "const")
       /\ StartsWithAt(text, i + 5, " _sfc_main = ")
    THEN LET r == LettersFrom(text, i + Len(SfcMainPrefix))
         IN  IF r >= least /\ Char(text, i + Len(SfcMainPrefix) + r) = ";"
             THEN Len(SfcMainPrefix) + r + 1
             ELSE 0
    ELSE 0

RECURSIVE WordedReplaceFrom(_, _, _)
WordedReplaceFrom(text, i, least) ==
    LET matches == { p \in i..Len(text) : WordedAssignmentAt(text, p, least) > 0 }
    IN  IF matches = {}
        THEN SubSeq(text, i, Len(text))
        ELSE LET p == CHOOSE q \in matches : \A r \in matches : q <= r
                 n == WordedAssignmentAt(text, p, least)
             IN  SubSeq(text, i, p - 1) \o Wrapped(text, p, n)
                     \o WordedReplaceFrom(text, p + n, least)

\* C3: when the predicate is true the output is the import line followed by
\* the input in which every "const _sfc_main = <identifier>;" is wrapped and
\* nothing else is changed; without such an occurrence the output is the import
\* line followed by the input itself.
C3_RewriteAsWorded ==
    (op = "handler" /\ verdict = TRUE) =>
        /\ code = VueFacingImport \o WordedReplaceFrom(source, 1, 1)
        /\ (\A i \in 1..Len(source) : WordedAssignmentAt(source, i, 1) = 0)
              => code = VueFacingImport \o source

\* C8: only the keyword const is matched in either case and the binding
\* _sfc_main is matched as written: "const _SFC_MAIN = Foo;" is left alone and
\* "CONST _sfc_main = Foo;" is wrapped.
C8_BindingAsWritten ==
    (op = "handler" /\ verdict = TRUE) =>
        /\ code = VueFacingImport \o WordedReplaceFrom(source, 1, 0)
        /\ Contains(source, "const _SFC_MAIN = Foo;")
              => Contains(code, "const _SFC_MAIN = Foo;")
        /\ Contains(source, "CONST _sfc_main = Foo;")
              => ~Contains(code, "CONST _sfc_main = Foo;")

\* C6 as stated: rule 5a does not fire on a text whose only default export is
\* a class declaration, which with the import stays at 50 and is classified
\* false.
C6_ClassExportNoTieBreak ==
    (/\ op = "exportsClassComponent"
     /\ OnlyDefaultExport(source, "class Foo extends Base {")
     /\ confidence.import = 40 /\ confidence.gate = 50)
        => (confidence.tieA = 50 /\ confidence.final = 50 /\ verdict = FALSE)

\* export\sdefault\s at i, followed by none of the prefixes
DefaultExportOfNoneAt(text, i, prefixes) ==
    /\ StartsWithAt(text, i, "export") /\ IsSpace(Char(text, i + 6))
    /\ StartsWithAt(text, i + 7, "default") /\ IsSpace(Char(text, i + 14))
    /\ \A q \in prefixes : ~StartsWithAt(text, i + 15, q)

\* C6, amended: rule 5a adds 1 exactly when the text holds "export default "
\* not directly followed by "{"; a class declaration counts, so the import
\* with "export default class Foo extends Base {}" as the only default export
\* scores 51 and is classified true.
C6_TieBreakUnlessObject ==
    (op = "exportsClassComponent" /\ ~confidence.early) =>
        /\ confidence.tieA = confidence.gate + 1 <=>
              \E i \in 1..Len(source) : DefaultExportOfNoneAt(source, i, {"{"})
        /\ confidence.tieA \in {confidence.gate, confidence.gate + 1}
        /\ (/\ OnlyDefaultExport(source, "class Foo extends Base {")
            /\ confidence.import = 40 /\ confidence.gate = 50)
              => (confidence.tieA = 51 /\ confidence.final = 51 /\ verdict = TRUE)

C6_Witness ==
    /\ op = "exportsClassComponent"
    /\ OnlyDefaultExport(source, "class Foo extends Base {")
    /\ confidence.import = 40 /\ confidence.gate = 50
    /\ confidence.final = 51 /\ verdict = TRUE

\* C7 as stated: rule 5b subtracts 1 only in a run in which rule 5a has added 1.
C7_SubtractOnlyAfterAdd ==
    op = "exportsClassComponent" =>
        (confidence.final < confidence.tieA => confidence.tieA > confidence.gate)

\* C7, amended: rule 5b subtracts 1 whenever the text holds "export default "
\* followed by neither "class" nor a capital letter, whether or not rule 5a
\* added 1; it fires without 5a exactly on texts all of whose default exports
\* are followed by "{", and these end one below their score at the gate and
\* are classified false.
C7_SubtractIndependently ==
    (op = "exportsClassComponent" /\ ~confidence.early) =>
        /\ confidence.final = confidence.tieA - 1 <=>
              \E i \in 1..Len(source) :
                  DefaultExportOfNoneAt(source, i, {"class"} \cup UpperSet)
        /\ confidence.final \in {confidence.tieA, confidence.tieA - 1}
        /\ (confidence.final < confidence.tieA /\ confidence.tieA = confidence.gate)
              <=> /\ \E i \in 1..Len(source) : DefaultExportOfNoneAt(source, i, {})
                  /\ \A i \in 1..Len(source) :
                        DefaultExportOfNoneAt(source, i, {})
                            => StartsWithAt(source, i + 15, "{")
        /\ (confidence.final < confidence.tieA /\ confidence.tieA = confidence.gate)
              => (confidence.final = confidence.gate - 1 /\ verdict = FALSE)

C7_Witness ==
    /\ op = "exportsClassComponent"
    /\ Contains(source, "export default {")
    /\ confidence.tieA = confidence.gate
    /\ confidence.final = confidence.gate - 1

====
